---- MODULE Spec2Model ----
(***************************************************************************)
(* A model of the R1CS core of Spartan2 (src/src/r1cs.rs): shapes and      *)
(* their padding, the chunked sparse matrix-vector kernel, the             *)
(* satisfiability checks and the folding scheme for relaxed R1CS.          *)
(*                                                                         *)
(* Scalars are the residues modulo Q.  Vectors are sequences, so that the  *)
(* Rust index i is the TLA+ index i + 1.  A sparse matrix is a sequence of *)
(* triples <<row, col, val>>.  A call returns Ok(v), Err(e) or Panic (an   *)
(* assertion, an arithmetic overflow or an out-of-bounds index aborts the  *)
(* call).                                                                  *)
(***************************************************************************)
EXTENDS Integers, Sequences, FiniteSets, TLC

(***************************************************************************)
(* Bounds of the model.                                                    *)
(***************************************************************************)
\* number of bits below the order of the scalar field
QBits == 4
\* largest num_cons / num_vars given to R1CSShape::new
MaxDim == 4
\* largest num_io given to R1CSShape::new
MaxIo == 1
\* largest rayon::current_num_threads()
MaxPool == 2
\* number of folding steps of one session
MaxFolds == 2

(***************************************************************************)
(* Results of calls.                                                       *)
(***************************************************************************)
Ok(v) == [kind |-> "Ok", val |-> v]
Err(e) == [kind |-> "Err", val |-> e]
Panic == [kind |-> "Panic", val |-> "panic"]
IsOk(r) == r.kind = "Ok"
IsErr(r, e) == r.kind = "Err" /\ r.val = e
IsPanic(r) == r.kind = "Panic"

(***************************************************************************)
(* Scalar arithmetic (ff::PrimeField on G::Scalar): the residues modulo Q, *)
(* the least prime above 2^QBits.                                          *)
(***************************************************************************)
IsPrime(n) == n > 1 /\ \A d \in 2 .. (n - 1) : n % d # 0
Q == CHOOSE p \in (2 ^ QBits) .. (2 ^ (QBits + 1)) :
       IsPrime(p) /\ \A q \in (2 ^ QBits) .. (p - 1) : ~IsPrime(q)
ZERO == 0
ONE == 1
Scalar == 0 .. (Q - 1)
Add(a, b) == (a + b) % Q
Sub(a, b) == (a - b + Q) % Q
Mul(a, b) == (a * b) % Q

max(a, b) == IF a >= b THEN a ELSE b

RECURSIVE Pow2AtLeast(_, _)
Pow2AtLeast(n, p) == IF p >= n THEN p ELSE Pow2AtLeast(n, 2 * p)
\* usize::next_power_of_two: the smallest power of two >= n (1 for n = 0)
next_power_of_two(n) == Pow2AtLeast(n, 1)

\* let x = v; F(x): v is evaluated once, F reads its value
Bind(v, F(_)) == CHOOSE y \in {F(x) : x \in {v}} : TRUE

\* Iterator::collect into a Vec: the elements are computed once, in order
collect(f) == f \o <<>>

\* vec![ZERO; n]
Zeros(n) == collect([i \in 1 .. n |-> ZERO])

\* the sequences over S of length at most n
SeqsUpTo(S, n) == UNION {[1 .. k -> S] : k \in 0 .. n}

(***************************************************************************)
(* R1CSShape.                                                              *)
(***************************************************************************)
R1CSShape(nc, nv, nio, A, B, C) ==
  [num_cons |-> nc, num_vars |-> nv, num_io |-> nio, A |-> A, B |-> B, C |-> C]

\* a faulty apply_pad: the column num_vars itself (the slot of the constant)
\* is left where it was
apply_pad_after(M, num_vars, num_vars_padded) ==
  collect([k \in DOMAIN M |->
             <<M[k][1],
               IF M[k][2] > num_vars THEN M[k][2] + num_vars_padded - num_vars
                                     ELSE M[k][2],
               M[k][3]>>])

\* the closure apply_pad of R1CSShape::pad
apply_pad(M, num_vars, num_vars_padded) ==
  collect([k \in DOMAIN M |->
             <<M[k][1],
               IF M[k][2] >= num_vars THEN M[k][2] + num_vars_padded - num_vars
                                      ELSE M[k][2],
               M[k][3]>>])

\* a faulty pad: rounds up to the power of two above the larger dimension,
\* also when that dimension is a power of two already
pad_above(S) ==
  LET m == next_power_of_two(max(S.num_vars, S.num_cons) + 1)
  IN  R1CSShape(m, m, S.num_io,
                apply_pad(S.A, S.num_vars, m),
                apply_pad(S.B, S.num_vars, m),
                apply_pad(S.C, S.num_vars, m))

\* R1CSShape::pad
pad(S) ==
  LET m == next_power_of_two(max(S.num_vars, S.num_cons))
  IN  IF S.num_vars = m /\ S.num_cons = m
        THEN S
        ELSE IF S.num_vars = m
          THEN R1CSShape(m, m, S.num_io, S.A, S.B, S.C)
          ELSE R1CSShape(m, m, S.num_io,
                         apply_pad(S.A, S.num_vars, m),
                         apply_pad(S.B, S.num_vars, m),
                         apply_pad(S.C, S.num_vars, m))

\* a faulty is_valid: the last column, num_io + num_vars, is refused
is_valid_strict(num_cons, num_vars, num_io, M) ==
  IF \E i \in DOMAIN M : M[i][1] >= num_cons \/ M[i][2] >= num_io + num_vars
    THEN Err("InvalidIndex")
    ELSE Ok("unit")

\* the closure is_valid of R1CSShape::new
is_valid(num_cons, num_vars, num_io, M) ==
  IF \E i \in DOMAIN M : M[i][1] >= num_cons \/ M[i][2] > num_io + num_vars
    THEN Err("InvalidIndex")
    ELSE Ok("unit")

\* R1CSShape::new
R1CSShape_new(num_cons, num_vars, num_io, A, B, C) ==
  LET res_A == is_valid(num_cons, num_vars, num_io, A)
      res_B == is_valid(num_cons, num_vars, num_io, B)
      res_C == is_valid(num_cons, num_vars, num_io, C)
  IN  IF ~IsOk(res_A) \/ ~IsOk(res_B) \/ ~IsOk(res_C)
        THEN Err("InvalidIndex")
        ELSE Ok(pad(R1CSShape(num_cons, num_vars, num_io, A, B, C)))

\* the conditions asserted by R1CSShape::check_regular_shape
check_regular_shape(S) ==
  /\ next_power_of_two(S.num_cons) = S.num_cons
  /\ next_power_of_two(S.num_vars) = S.num_vars
  /\ S.num_io < S.num_vars

(***************************************************************************)
(* R1CSShape::multiply_vec and its kernel sparse_matrix_vec_product.       *)
(* pool is rayon::current_num_threads().  The workers of par_chunks run in *)
(* parallel; every update of an accumulator is made under the mutex of its *)
(* bucket and is an addition of scalars, so the buckets at the end do not  *)
(* depend on the interleaving and the sub-matrices are taken here in slice *)
(* order.  A panic of any worker aborts the call.                          *)
(***************************************************************************)
\* (a as f64 / b as f64).ceil() as usize
CeilDiv(a, b) == (a + b - 1) \div b

\* lines 161-172: the row buckets.  remaining_rows -= row_chunk_size
\* underflows when the first num_threads - 1 buckets overshoot num_rows: a
\* debug build panics on the subtraction, a release build wraps and panics
\* on the capacity of the final vec!
alloc_chunks(num_rows, num_threads, row_chunk_size) ==
  IF (num_threads - 1) * row_chunk_size > num_rows
    THEN Panic
    ELSE Ok(collect([i \in 1 .. num_threads |->
                       Zeros(IF i = num_threads
                               THEN num_rows - (num_threads - 1) * row_chunk_size
                               ELSE row_chunk_size)]))

\* chunks[c][i] += m
add_to_chunk(chunks, c, i, m) ==
  [chunks EXCEPT ![c + 1] = [@ EXCEPT ![i + 1] = Add(@, m)]]

\* lines 203-209: products by one collapse to the other operand
scaled(val, zc) ==
  IF zc = ONE THEN val ELSE IF val = ONE THEN zc ELSE Mul(val, zc)

\* lines 189-211: the entries of a sub-matrix after the first
RECURSIVE worker_loop(_, _, _, _, _, _)
worker_loop(chunks, sub_matrix, k, prev_chunk_index, z, row_chunk_size) ==
  IF k > Len(sub_matrix)
    THEN Ok(chunks)
    ELSE
      LET row == sub_matrix[k][1]
          col == sub_matrix[k][2]
          val == sub_matrix[k][3]
          curr_chunk_index == row \div row_chunk_size
          index == row % row_chunk_size
      IN  IF prev_chunk_index # curr_chunk_index /\ curr_chunk_index >= Len(chunks)
            THEN Panic
          ELSE IF col >= Len(z)
            THEN Panic
          ELSE IF z[col + 1] = ZERO
            THEN worker_loop(chunks, sub_matrix, k + 1, curr_chunk_index, z,
                             row_chunk_size)
          ELSE IF index >= Len(chunks[curr_chunk_index + 1])
            THEN Panic
          ELSE worker_loop(add_to_chunk(chunks, curr_chunk_index, index,
                                        scaled(val, z[col + 1])),
                           sub_matrix, k + 1, curr_chunk_index, z, row_chunk_size)

\* lines 179-212: the closure run on one sub-matrix
worker(chunks, sub_matrix, z, row_chunk_size) ==
  LET init_row == sub_matrix[1][1]
      init_col == sub_matrix[1][2]
      init_val == sub_matrix[1][3]
  IN  IF row_chunk_size = 0
        THEN Panic
      ELSE IF init_row \div row_chunk_size >= Len(chunks)
        THEN Panic
      ELSE IF init_col >= Len(z)
        THEN Panic
      ELSE IF init_row % row_chunk_size
                >= Len(chunks[(init_row \div row_chunk_size) + 1])
        THEN Panic
      ELSE worker_loop(add_to_chunk(chunks, init_row \div row_chunk_size,
                                    init_row % row_chunk_size,
                                    Mul(init_val, z[init_col + 1])),
                       sub_matrix, 2, init_row \div row_chunk_size, z,
                       row_chunk_size)

\* <[T]>::par_chunks: the slices of chunk_size entries, the last one shorter
par_chunks(M, chunk_size) ==
  collect([j \in 1 .. CeilDiv(Len(M), chunk_size) |->
             SubSeq(M, (j - 1) * chunk_size + 1,
                    IF j * chunk_size < Len(M) THEN j * chunk_size ELSE Len(M))])

RECURSIVE for_each_chunk(_, _, _, _, _)
for_each_chunk(chunks, subs, j, z, row_chunk_size) ==
  IF j > Len(subs)
    THEN Ok(chunks)
    ELSE Bind(worker(chunks, subs[j], z, row_chunk_size),
              LAMBDA r : IF IsOk(r)
                           THEN for_each_chunk(r.val, subs, j + 1, z,
                                               row_chunk_size)
                           ELSE Panic)

\* lines 219-223: flat_chunks
RECURSIVE flatten(_, _)
flatten(chunks, i) ==
  IF i > Len(chunks) THEN <<>> ELSE chunks[i] \o flatten(chunks, i + 1)

\* lines 149-229
sparse_matrix_vec_product(M, num_rows, z, pool) ==
  LET num_threads == pool * 4
      thread_chunk_size == Len(M) \div num_threads
      row_chunk_size == CeilDiv(num_rows, num_threads)
      chunks == alloc_chunks(num_rows, num_threads, row_chunk_size)
  IN  IF ~IsOk(chunks)
        THEN Panic
      ELSE IF thread_chunk_size = 0
        THEN Panic   \* par_chunks asserts chunk_size != 0
      ELSE Bind(for_each_chunk(chunks.val, par_chunks(M, thread_chunk_size),
                               1, z, row_chunk_size),
                LAMBDA done : IF IsOk(done) THEN Ok(flatten(done.val, 1))
                                            ELSE Panic)

\* a faulty multiply_vec: the length of z is not looked at
multiply_vec_unchecked(S, z, pool) ==
  Bind(<<sparse_matrix_vec_product(S.A, S.num_cons, z, pool),
         sparse_matrix_vec_product(S.B, S.num_cons, z, pool),
         sparse_matrix_vec_product(S.C, S.num_cons, z, pool)>>,
       LAMBDA p : IF IsOk(p[1]) /\ IsOk(p[2]) /\ IsOk(p[3])
                    THEN Ok(<<p[1].val, p[2].val, p[3].val>>)
                    ELSE Panic)

\* R1CSShape::multiply_vec
multiply_vec(S, z, pool) ==
  IF Len(z) # S.num_io + S.num_vars + 1
    THEN Err("InvalidWitnessLength")
    ELSE Bind(<<sparse_matrix_vec_product(S.A, S.num_cons, z, pool),
                sparse_matrix_vec_product(S.B, S.num_cons, z, pool),
                sparse_matrix_vec_product(S.C, S.num_cons, z, pool)>>,
              LAMBDA p : IF IsOk(p[1]) /\ IsOk(p[2]) /\ IsOk(p[3])
                           THEN Ok(<<p[1].val, p[2].val, p[3].val>>)
                           ELSE Panic)

(***************************************************************************)
(* The commitment engine (CE::setup, CE::commit, Commitment::default and   *)
(* the operations on commitments): a linear map into the scalars, which is *)
(* homomorphic under addition and multiplication by a scalar.  No          *)
(* generator of the key is the identity.                                   *)
(***************************************************************************)
Gen(i) == 1 + (i % (Q - 1))
setup(n) == collect([i \in 1 .. n |-> Gen(i)])

RECURSIVE msm(_, _, _)
msm(ck, v, i) ==
  IF i > Len(v) THEN ZERO ELSE Add(Mul(ck[i], v[i]), msm(ck, v, i + 1))

commit(ck, v) == msm(ck, v, 1)
Commitment_default == ZERO
comm_add(a, b) == Add(a, b)
comm_mul(a, r) == Mul(a, r)

\* R1CS::commitment_key
commitment_key(S) ==
  LET P == pad(S) IN setup(max(P.num_cons, P.num_vars))

(***************************************************************************)
(* Witnesses and instances.                                                *)
(***************************************************************************)
\* R1CSWitness::pad; S.num_vars - W.len() underflows for a longer W (a debug
\* build panics on it, a release build on the capacity of the vec!)
R1CSWitness_pad(S, W) ==
  IF Len(W) > S.num_vars
    THEN Panic
    ELSE Ok([W |-> W \o Zeros(S.num_vars - Len(W))])

\* R1CSWitness::new
R1CSWitness_new(S, W) == R1CSWitness_pad(S, W)

\* R1CSInstance::new
R1CSInstance_new(S, comm_W, X) ==
  IF S.num_io # Len(X)
    THEN Err("InvalidInputLength")
    ELSE Ok([comm_W |-> comm_W, X |-> X])

\* the number of constraints i < num_cons with lhs[i] != rhs[i] is zero
all_rows_equal(num_cons, lhs, rhs) ==
  \A i \in 1 .. num_cons : lhs[i] = rhs[i]

\* R1CSShape::is_sat
is_sat(S, ck, U, W, pool) ==
  IF Len(W.W) # S.num_vars \/ Len(U.X) # S.num_io
    THEN Panic
    ELSE
      Bind(multiply_vec(S, W.W \o <<ONE>> \o U.X, pool),
           LAMBDA mv :
             IF ~IsOk(mv)
               THEN mv
             ELSE IF \E j \in 1 .. 3 : Len(mv.val[j]) # S.num_cons
               THEN Panic
             ELSE
               LET Az == mv.val[1]
                   Bz == mv.val[2]
                   Cz == mv.val[3]
                   res_eq == all_rows_equal(S.num_cons,
                               [i \in 1 .. S.num_cons |-> Mul(Az[i], Bz[i])], Cz)
                   res_comm == (U.comm_W = commit(ck, W.W))
               IN  IF res_eq /\ res_comm THEN Ok("unit") ELSE Err("UnSat"))

\* a faulty is_sat_relaxed: comm_W is not compared with the commitment of W
is_sat_relaxed_comm_E_only(S, ck, U, W, pool) ==
  IF Len(W.W) # S.num_vars \/ Len(W.E) # S.num_cons \/ Len(U.X) # S.num_io
    THEN Panic
    ELSE
      Bind(multiply_vec(S, W.W \o <<U.u>> \o U.X, pool),
           LAMBDA mv :
             IF ~IsOk(mv)
               THEN mv
             ELSE IF \E j \in 1 .. 3 : Len(mv.val[j]) # S.num_cons
               THEN Panic
             ELSE
               LET Az == mv.val[1]
                   Bz == mv.val[2]
                   Cz == mv.val[3]
                   res_eq == all_rows_equal(S.num_cons,
                               [i \in 1 .. S.num_cons |-> Mul(Az[i], Bz[i])],
                               [i \in 1 .. S.num_cons |->
                                  Add(Mul(U.u, Cz[i]), W.E[i])])
                   res_comm == U.comm_E = commit(ck, W.E)
               IN  IF res_eq /\ res_comm THEN Ok("unit") ELSE Err("UnSat"))

\* R1CSShape::is_sat_relaxed
is_sat_relaxed(S, ck, U, W, pool) ==
  IF Len(W.W) # S.num_vars \/ Len(W.E) # S.num_cons \/ Len(U.X) # S.num_io
    THEN Panic
    ELSE
      Bind(multiply_vec(S, W.W \o <<U.u>> \o U.X, pool),
           LAMBDA mv :
             IF ~IsOk(mv)
               THEN mv
             ELSE IF \E j \in 1 .. 3 : Len(mv.val[j]) # S.num_cons
               THEN Panic
             ELSE
               LET Az == mv.val[1]
                   Bz == mv.val[2]
                   Cz == mv.val[3]
                   res_eq == all_rows_equal(S.num_cons,
                               [i \in 1 .. S.num_cons |-> Mul(Az[i], Bz[i])],
                               [i \in 1 .. S.num_cons |->
                                  Add(Mul(U.u, Cz[i]), W.E[i])])
                   res_comm == /\ U.comm_W = commit(ck, W.W)
                               /\ U.comm_E = commit(ck, W.E)
               IN  IF res_eq /\ res_comm THEN Ok("unit") ELSE Err("UnSat"))

(***************************************************************************)
(* The folding scheme.                                                     *)
(***************************************************************************)
\* a faulty cross term: the product u2 * CZ_1 = CZ_1 is left out
cross_term_without_CZ_1(u1, AZ_1, BZ_1, CZ_1, AZ_2, BZ_2, CZ_2) ==
  collect([i \in 1 .. Len(AZ_1) |->
             Sub(Add(Mul(AZ_1[i], BZ_2[i]), Mul(AZ_2[i], BZ_1[i])),
                 Mul(u1, CZ_2[i]))])

\* lines 339-362: the cross term from the six products
cross_term(u1, AZ_1, BZ_1, CZ_1, AZ_2, BZ_2, CZ_2) ==
  collect([i \in 1 .. Len(AZ_1) |->
             Sub(Sub(Add(Mul(AZ_1[i], BZ_2[i]), Mul(AZ_2[i], BZ_1[i])),
                     Mul(u1, CZ_2[i])),
                 CZ_1[i])])

\* R1CSShape::commit_T
commit_T(S, ck, U1, W1, U2, W2, pool) ==
  Bind(multiply_vec(S, W1.W \o <<U1.u>> \o U1.X, pool),
       LAMBDA mv1 :
         IF ~IsOk(mv1)
           THEN mv1
           ELSE Bind(multiply_vec(S, W2.W \o <<ONE>> \o U2.X, pool),
                     LAMBDA mv2 :
                       IF ~IsOk(mv2)
                         THEN mv2
                         ELSE Bind(cross_term(U1.u, mv1.val[1], mv1.val[2],
                                              mv1.val[3], mv2.val[1],
                                              mv2.val[2], mv2.val[3]),
                                   LAMBDA T : Ok(<<T, commit(ck, T)>>))))

\* a.iter().zip(b).map(|(a, b)| a + r * b): as long as the shorter operand
zip_fold(a, b, r) ==
  collect([i \in 1 .. (IF Len(a) <= Len(b) THEN Len(a) ELSE Len(b)) |->
             Add(a[i], Mul(r, b[i]))])

\* RelaxedR1CSWitness::default
RelaxedR1CSWitness_default(S) ==
  [W |-> Zeros(S.num_vars), E |-> Zeros(S.num_cons)]

\* RelaxedR1CSWitness::from_r1cs_witness
from_r1cs_witness(S, witness) ==
  [W |-> witness.W, E |-> Zeros(S.num_cons)]

\* RelaxedR1CSWitness::fold
RelaxedR1CSWitness_fold(W1, W2, T, r) ==
  IF Len(W1.W) # Len(W2.W)
    THEN Err("InvalidWitnessLength")
    ELSE Ok([W |-> zip_fold(W1.W, W2.W, r), E |-> zip_fold(W1.E, T, r)])

\* RelaxedR1CSInstance::default
RelaxedR1CSInstance_default(S) ==
  [comm_W |-> Commitment_default, comm_E |-> Commitment_default,
   X |-> Zeros(S.num_io), u |-> ZERO]

\* a faulty from_r1cs_instance: u keeps its default value
from_r1cs_instance_default_u(S, instance) ==
  [RelaxedR1CSInstance_default(S) EXCEPT
     !.comm_W = instance.comm_W, !.X = instance.X]

\* RelaxedR1CSInstance::from_r1cs_instance
from_r1cs_instance(S, instance) ==
  [RelaxedR1CSInstance_default(S) EXCEPT
     !.comm_W = instance.comm_W, !.u = ONE, !.X = instance.X]

\* RelaxedR1CSInstance::fold
RelaxedR1CSInstance_fold(U1, U2, comm_T, r) ==
  Ok([comm_W |-> comm_add(U1.comm_W, comm_mul(U2.comm_W, r)),
      comm_E |-> comm_add(U1.comm_E, comm_mul(comm_T, r)),
      X |-> zip_fold(U1.X, U2.X, r),
      u |-> Add(U1.u, r)])

(***************************************************************************)
(* The inputs offered by a caller.                                         *)
(***************************************************************************)
\* the scalars offered in a witness and in an input vector
InScalars == {ZERO, ONE}
\* the challenges r offered to a fold
Challenges == {ZERO, ONE, Q - 1}

\* the matrices of the circuit w0 * w1 = z[2] on one constraint
ProductA == << <<0, 0, 1>> >>
ProductB == << <<0, 1, 1>> >>
ProductC == << <<0, 2, 1>> >>

\* a circuit on the columns w0 = 0, constant = 1, x0 = 2 (num_vars = 1) with
\* n >= 4 constraints: w0 * w0 = x0, (w0 + x0) * w0 = 2 * w0, 1 * 2 = 2,
\* 2 * w0 * 1 = 2 * w0 and 1 * 1 = 1 on every further row
FoldA(n) == << <<0, 0, 1>>, <<1, 0, 1>>, <<1, 2, 1>>, <<2, 1, 1>>, <<3, 0, 2>> >>
              \o [j \in 1 .. (n - 4) |-> <<j + 3, 1, 1>>]
FoldB(n) == << <<0, 0, 1>>, <<1, 0, 1>>, <<2, 1, 2>>, <<3, 1, 1>> >>
              \o [j \in 1 .. (n - 4) |-> <<j + 3, 1, 1>>]
FoldC(n) == << <<0, 2, 1>>, <<1, 0, 2>>, <<2, 1, 2>>, <<3, 0, 2>> >>
              \o [j \in 1 .. (n - 4) |-> <<j + 3, 1, 1>>]

\* the triples of matrices offered to R1CSShape::new
Circuits ==
  { <<<<>>, <<>>, <<>>>>,
    <<ProductA, ProductB, ProductC>>,
    <<<< <<2, 0, 2>> >>, <<>>, <<>>>>,
    <<<<>>, << <<0, 3, 1>> >>, <<>>>>,
    <<<<>>, <<>>, << <<1, 1, 2>>, <<0, 0, 1>> >>>>,
    <<FoldA(4), FoldB(4), FoldC(4)>> }

ShapeArgs ==
  { R1CSShape(nc, nv, nio, c[1], c[2], c[3]) :
      nc \in 0 .. MaxDim, nv \in 0 .. MaxDim, nio \in 0 .. MaxIo, c \in Circuits }

\* the arguments of the scenario w0 * w1 = z[2]
ScenarioArgs == R1CSShape(1, 2, 1, ProductA, ProductB, ProductC)

\* the shapes folded: the circuit above on 4 and on 8 constraints
FoldArgs ==
  { R1CSShape(n, 1, 1, FoldA(n), FoldB(n), FoldC(n)) : n \in {4, 8} }

ScenarioW == <<3, 4>>
ScenarioX == {<<12>>, <<13>>}
ScenarioZ == <<3, 4, 0, 1, 12>>

\* the raw witnesses handed to R1CSWitness::new: w0 alone, or nothing
RawWitnesses == {<<>>} \cup {<<a>> : a \in InScalars}
XInputs == SeqsUpTo(InScalars, MaxIo)

\* the vectors z = [W | u | X] offered to multiply_vec
ZInputs(S) ==
  { (w \o Zeros(S.num_vars - Len(w))) \o <<u>> \o x :
      w \in {v \in RawWitnesses : Len(v) <= S.num_vars},
      u \in InScalars, x \in XInputs }
  \cup {ScenarioZ}

(***************************************************************************)
(* The state: the values held by a caller of the library.                  *)
(***************************************************************************)
VARIABLES
  pool,    \* rayon::current_num_threads()
  raw,     \* the arguments the shape was constructed from
  shape,   \* the R1CSShape held
  origin,  \* the operation the shape held came out of
  W2,      \* the R1CSWitness held
  U2,      \* the R1CSInstance held
  accW,    \* the running RelaxedR1CSWitness
  accU,    \* the running RelaxedR1CSInstance
  hist,    \* how the running pair was made and what was accepted of its inputs
  folds,   \* the number of folds made
  last,    \* the last call: its name, its arguments and its result
  poly,    \* the MultilinearPolynomial held, with the challenges bound so far
  kern     \* a run of sparse_matrix_vec_product: its workers and its buckets

vars ==
  <<pool, raw, shape, origin, W2, U2, accW, accU, hist, folds, last, poly, kern>>

None == [none |-> TRUE]
Call(op, arg, res) == [op |-> op, arg |-> arg, res |-> res]

ck == commitment_key(shape)

Init ==
  /\ pool \in 1 .. MaxPool
  /\ raw = None
  /\ shape = None
  /\ origin = "none"
  /\ W2 = None
  /\ U2 = None
  /\ accW = None
  /\ accU = None
  /\ hist = None
  /\ folds = 0
  /\ last = Call("init", None, None)
  /\ poly = None
  /\ kern = None

\* R1CSShape::new
New(a) ==
  /\ raw = None
  /\ LET res == R1CSShape_new(a.num_cons, a.num_vars, a.num_io, a.A, a.B, a.C)
     IN  /\ raw' = a
         /\ shape' = IF IsOk(res) THEN res.val ELSE None
         /\ origin' = IF IsOk(res) THEN "new" ELSE "none"
         /\ last' = Call("new", a, res)
  /\ UNCHANGED <<pool, W2, U2, accW, accU, hist, folds>>
  /\ UNCHANGED <<poly, kern>>

\* an R1CSShape built field by field (the struct literal, Deserialize)
Deserialize(a) ==
  /\ raw = None
  /\ raw' = a
  /\ shape' = a
  /\ origin' = "deserialize"
  /\ last' = Call("deserialize", a, Ok(a))
  /\ UNCHANGED <<pool, W2, U2, accW, accU, hist, folds>>
  /\ UNCHANGED <<poly, kern>>

\* R1CSShape::pad on the shape held
Pad ==
  /\ shape # None
  /\ W2 = None
  /\ shape' = pad(shape)
  /\ origin' = "pad"
  /\ last' = Call("pad", [S |-> shape, origin |-> origin], Ok(pad(shape)))
  /\ UNCHANGED <<pool, raw, W2, U2, accW, accU, hist, folds>>
  /\ UNCHANGED <<poly, kern>>

\* R1CSShape::multiply_vec, on a shape returned by R1CSShape::new
MultiplyVec(z) ==
  /\ shape # None
  /\ origin = "new"
  /\ W2 = None
  /\ last.op # "multiply_vec"
  /\ last' = Call("multiply_vec", z, multiply_vec(shape, z, pool))
  /\ UNCHANGED <<pool, raw, shape, origin, W2, U2, accW, accU, hist, folds>>
  /\ UNCHANGED <<poly, kern>>

\* R1CSWitness::new, by a caller who holds a shape returned by R1CSShape::new
WitnessNew(w) ==
  /\ shape # None
  /\ origin = "new"
  /\ W2 = None
  /\ folds < MaxFolds
  /\ LET res == R1CSWitness_new(shape, w)
     IN  /\ W2' = IF IsOk(res) THEN res.val ELSE None
         /\ last' = Call("witness_new", w, res)
  /\ UNCHANGED <<pool, raw, shape, origin, U2, accW, accU, hist, folds>>
  /\ UNCHANGED <<poly, kern>>

\* R1CSInstance::new on the commitment of the witness held, moved by d
InstanceNew(X, d) ==
  /\ W2 # None
  /\ U2 = None
  /\ LET res == R1CSInstance_new(shape, Add(commit(ck, W2.W), d), X)
     IN  /\ U2' = IF IsOk(res) THEN res.val ELSE None
         /\ last' = Call("instance_new", X, res)
  /\ UNCHANGED <<pool, raw, shape, origin, W2, accW, accU, hist, folds>>
  /\ UNCHANGED <<poly, kern>>

\* R1CSShape::is_sat
IsSat ==
  /\ W2 # None
  /\ U2 # None
  /\ last.op # "is_sat"
  /\ last' = Call("is_sat", [U |-> U2, W |-> W2], is_sat(shape, ck, U2, W2, pool))
  /\ UNCHANGED <<pool, raw, shape, origin, W2, U2, accW, accU, hist, folds>>
  /\ UNCHANGED <<poly, kern>>

Next ==
  \/ \E a \in ShapeArgs : New(a)
  \/ \E a \in ShapeArgs : Deserialize(a)
  \/ Pad
  \/ shape # None /\ \E z \in ZInputs(shape) : MultiplyVec(z)
  \/ \E w \in RawWitnesses \cup {ScenarioW} : WitnessNew(w)
  \/ \E X \in XInputs \cup ScenarioX, d \in {0, 1} : InstanceNew(X, d)
  \/ IsSat

Spec == Init /\ [][Next]_vars

\* RelaxedR1CSInstance::from_r1cs_instance and
\* RelaxedR1CSWitness::from_r1cs_witness on the standard pair held
Lift ==
  /\ W2 # None
  /\ U2 # None
  /\ accW = None
  /\ accW' = from_r1cs_witness(shape, W2)
  /\ accU' = from_r1cs_instance(shape, U2)
  /\ hist' = [how |-> "lift", in1 |-> None,
              in2 |-> is_sat(shape, ck, U2, W2, pool)]
  /\ W2' = None
  /\ U2' = None
  /\ last' = Call("lift", [U |-> U2, W |-> W2],
                  Ok(<<from_r1cs_instance(shape, U2),
                       from_r1cs_witness(shape, W2)>>))
  /\ UNCHANGED <<pool, raw, shape, origin, folds>>
  /\ UNCHANGED <<poly, kern>>

\* RelaxedR1CSInstance::default and RelaxedR1CSWitness::default
Default ==
  /\ shape # None
  /\ W2 = None
  /\ accW = None
  /\ accW' = RelaxedR1CSWitness_default(shape)
  /\ accU' = RelaxedR1CSInstance_default(shape)
  /\ hist' = [how |-> "default", in1 |-> None, in2 |-> None]
  /\ last' = Call("default", None,
                  Ok(<<RelaxedR1CSInstance_default(shape),
                       RelaxedR1CSWitness_default(shape)>>))
  /\ UNCHANGED <<pool, raw, shape, origin, W2, U2, folds>>
  /\ UNCHANGED <<poly, kern>>

\* one folding step: R1CSShape::commit_T, then RelaxedR1CSInstance::fold and
\* RelaxedR1CSWitness::fold of the standard pair held into the running pair
Fold(r) ==
  /\ accW # None
  /\ W2 # None
  /\ U2 # None
  /\ folds < MaxFolds
  /\ \E ct \in {commit_T(shape, ck, accU, accW, U2, W2, pool)} :
       LET arg == [U1 |-> accU, W1 |-> accW, U2 |-> U2, W2 |-> W2, r |-> r,
                   T |-> IF IsOk(ct) THEN ct.val[1] ELSE None]
       IN  IF ~IsOk(ct)
             THEN /\ last' = Call("fold", arg, ct)
                  /\ UNCHANGED <<accW, accU, hist>>
             ELSE \E Wf \in {RelaxedR1CSWitness_fold(accW, W2, ct.val[1], r)},
                     Uf \in {RelaxedR1CSInstance_fold(accU, U2, ct.val[2], r)} :
                    IF ~IsOk(Wf)
                      THEN /\ last' = Call("fold", arg, Wf)
                           /\ UNCHANGED <<accW, accU, hist>>
                      ELSE /\ accW' = Wf.val
                           /\ accU' = Uf.val
                           /\ hist' = [how |-> "fold", r |-> r,
                                       u1 |-> accU.u, E1 |-> accW.E,
                                       in1 |-> is_sat_relaxed(shape, ck, accU,
                                                              accW, pool),
                                       in2 |-> is_sat(shape, ck, U2, W2, pool)]
                           /\ last' = Call("fold", arg, Ok(<<Uf.val, Wf.val>>))
  /\ W2' = None
  /\ U2' = None
  /\ folds' = folds + 1
  /\ UNCHANGED <<pool, raw, shape, origin>>
  /\ UNCHANGED <<poly, kern>>

\* R1CSShape::is_sat_relaxed on the running pair
IsSatRelaxed ==
  /\ accW # None
  /\ W2 = None
  /\ last.op # "is_sat_relaxed"
  /\ last' = Call("is_sat_relaxed", [U |-> accU, W |-> accW],
                  is_sat_relaxed(shape, ck, accU, accW, pool))
  /\ UNCHANGED <<pool, raw, shape, origin, W2, U2, accW, accU, hist, folds>>
  /\ UNCHANGED <<poly, kern>>

NextFold ==
  \/ \E a \in FoldArgs : New(a)
  \/ \E w \in RawWitnesses : WitnessNew(w)
  \/ \E X \in XInputs, d \in (IF accW = None THEN {0, 1} ELSE {0}) :
       InstanceNew(X, d)
  \/ Lift
  \/ Default
  \/ \E r \in Challenges : Fold(r)
  \/ IsSatRelaxed

SpecFold == Init /\ [][NextFold]_vars

\* R1CSShape::is_sat_relaxed on the folded pair that was accepted, with the
\* entry i of W.W replaced by v
Tamper(i, v) ==
  /\ accW # None
  /\ W2 = None
  /\ hist.how = "fold"
  /\ last.op = "is_sat_relaxed"
  /\ IsOk(last.res)
  /\ i \in DOMAIN accW.W
  /\ v # accW.W[i]
  /\ LET W == [accW EXCEPT !.W[i] = v]
     IN  last' = Call("tamper", [i |-> i, v |-> v, U |-> accU, W |-> W],
                      is_sat_relaxed(shape, ck, accU, W, pool))
  /\ UNCHANGED <<pool, raw, shape, origin, W2, U2, accW, accU, hist, folds>>
  /\ UNCHANGED <<poly, kern>>

\* the scalars put in the place of an entry
TamperScalars == {ZERO, ONE, (Q + 1) \div 2, Q - 1}

NextTamper ==
  \/ NextFold
  \/ \E i \in 1 .. (2 * MaxDim), v \in TamperScalars : Tamper(i, v)

SpecTamper == Init /\ [][NextTamper]_vars

(***************************************************************************)
(* Witnesses and instances whose lengths do not fit the shape.  The fields *)
(* of the structs are pub(crate) and the structs derive Deserialize, so a  *)
(* caller can hold a value that no constructor has looked at.              *)
(***************************************************************************)
\* the shapes of these sessions: the scenario, and the circuit on 4 rows
DimArgs == {ScenarioArgs, R1CSShape(4, 1, 1, FoldA(4), FoldB(4), FoldC(4))}
\* the vectors W of the witnesses built field by field
DimWs == {<<>>, <<ONE>>, <<ONE, ZERO>>, <<ZERO, ONE, ONE>>, Zeros(4),
          <<ONE, ZERO, ZERO, ZERO, ZERO>>}
\* the vectors X of the instances built field by field
DimXs == {<<>>, <<ONE>>, <<ZERO, ONE>>}
\* the vectors E and T
DimEs == {<<>>, <<ONE>>, <<ZERO, ONE>>, Zeros(4), <<ONE, ZERO, ZERO, ONE>>,
          <<ZERO, ZERO, ZERO, ZERO, ONE>>}

\* R1CSWitness { W } built field by field
WitnessLiteral(w) ==
  /\ shape # None
  /\ W2 = None
  /\ W2' = [W |-> w]
  /\ last' = Call("witness_literal", w, Ok([W |-> w]))
  /\ UNCHANGED <<pool, raw, shape, origin, U2, accW, accU, hist, folds>>
  /\ UNCHANGED <<poly, kern>>

\* R1CSInstance { comm_W, X } built field by field
InstanceLiteral(X) ==
  /\ W2 # None
  /\ U2 = None
  /\ U2' = [comm_W |-> Commitment_default, X |-> X]
  /\ last' = Call("instance_literal", X, Ok([comm_W |-> Commitment_default, X |-> X]))
  /\ UNCHANGED <<pool, raw, shape, origin, W2, accW, accU, hist, folds>>
  /\ UNCHANGED <<poly, kern>>

\* RelaxedR1CSWitness { W, E } built field by field, in the place of the
\* running witness
RelaxedWitnessLiteral(w, e) ==
  /\ accW # None
  /\ W2 = None
  /\ hist.how = "lift"
  /\ accW' = [W |-> w, E |-> e]
  /\ hist' = [how |-> "literal", in1 |-> None, in2 |-> None]
  /\ last' = Call("relaxed_witness_literal", <<w, e>>, Ok([W |-> w, E |-> e]))
  /\ UNCHANGED <<pool, raw, shape, origin, W2, U2, accU, folds>>
  /\ UNCHANGED <<poly, kern>>

\* RelaxedR1CSWitness::fold of the witness held into the running witness;
\* the result is returned, the operands are left as they were
WitnessFold(T, r) ==
  /\ accW # None
  /\ W2 # None
  /\ U2 = None
  /\ last.op # "witness_fold"
  /\ last' = Call("witness_fold", [W1 |-> accW, W2 |-> W2, T |-> T, r |-> r],
                  RelaxedR1CSWitness_fold(accW, W2, T, r))
  /\ UNCHANGED <<pool, raw, shape, origin, W2, U2, accW, accU, hist, folds>>
  /\ UNCHANGED <<poly, kern>>

NextDims ==
  \/ \E a \in DimArgs : New(a)
  \/ \E w \in RawWitnesses \cup {ScenarioW, <<ONE, ZERO, ONE>>} : WitnessNew(w)
  \/ \E w \in DimWs : WitnessLiteral(w)
  \/ \E X \in DimXs : InstanceLiteral(X)
  \/ IsSat
  \/ Lift
  \/ \E w \in DimWs, e \in DimEs : RelaxedWitnessLiteral(w, e)
  \/ IsSatRelaxed
  \/ \E T \in DimEs, r \in Challenges : WitnessFold(T, r)

SpecDims == Init /\ [][NextDims]_vars

(***************************************************************************)
(* The properties.  A matrix-vector product is taken here by its           *)
(* definition: entry i of M z is the sum of val * z[col] over the triples  *)
(* <<i, col, val>> of M.                                                   *)
(***************************************************************************)
RECURSIVE RowDotFrom(_, _, _, _)
RowDotFrom(M, i, z, k) ==
  IF k > Len(M)
    THEN 0
    ELSE (IF M[k][1] = i THEN M[k][3] * z[M[k][2] + 1] ELSE 0)
           + RowDotFrom(M, i, z, k + 1)

RowDot(M, i, z) == RowDotFrom(M, i, z, 1) % Q
MatVec(M, num_rows, z) == [i \in 1 .. num_rows |-> RowDot(M, i - 1, z)]
Matrices(S) == <<S.A, S.B, S.C>>
IsPowerOfTwo(n) == \E e \in 0 .. 8 : n = 2 ^ e

\* C1: folding soundness.  When the running pair was accepted by
\* is_sat_relaxed and the standard pair by is_sat, the pair made of them by
\* commit_T and the two folds, for whatever r, is accepted by is_sat_relaxed.
C1_FoldingSound ==
  (last.op = "is_sat_relaxed" /\ hist.how = "fold"
     /\ IsOk(hist.in1) /\ IsOk(hist.in2))
    => IsOk(last.res)

\* the second fold of a session, with r # 0, into a running pair whose error
\* vector was not zero, both inputs accepted, and the outcome checked
C1_Witness ==
  /\ last.op = "is_sat_relaxed"
  /\ hist.how = "fold"
  /\ IsOk(hist.in1)
  /\ IsOk(hist.in2)
  /\ folds = 2
  /\ hist.r # ZERO
  /\ hist.u1 \notin {ZERO, ONE}
  /\ hist.E1 # Zeros(shape.num_cons)
  /\ accW.E # hist.E1
  /\ IsOk(last.res)

\* C2: satisfiability agreement.  The pair lifted from a standard pair has
\* u = 1 and E = 0, and is_sat_relaxed accepts it if and only if is_sat
\* accepted the standard pair.
C2_LiftAgrees ==
  (last.op = "is_sat_relaxed" /\ hist.how = "lift")
    => /\ accU.u = ONE
       /\ accW.E = Zeros(shape.num_cons)
       /\ IsOk(last.res) <=> IsOk(hist.in2)

\* a lifted pair with a witness that is not zero, accepted on both sides
C2_Witness ==
  /\ last.op = "is_sat_relaxed"
  /\ hist.how = "lift"
  /\ accW.W # Zeros(shape.num_vars)
  /\ IsOk(hist.in2)
  /\ IsOk(last.res)

\* C3: multiply_vec on a valid shape and a z of num_vars + num_io + 1
\* entries returns Ok((Az, Bz, Cz)), every vector of num_cons entries and
\* equal to the product by its definition, for every size of the pool and
\* every number of entries of the matrices.
C3_MultiplyVecIsProduct ==
  (last.op = "multiply_vec" /\ origin = "new"
     /\ Len(last.arg) = shape.num_vars + shape.num_io + 1)
    => /\ IsOk(last.res)
       /\ \A j \in 1 .. 3 :
            last.res.val[j] = MatVec(Matrices(shape)[j], shape.num_cons, last.arg)

\* C4: padding is idempotent.  pad applied to a shape that came out of pad
\* (of R1CSShape::new, which ends in pad, or of pad itself) returns it
\* unchanged, field for field.
C4_PadIdempotent ==
  (last.op = "pad" /\ last.arg.origin \in {"new", "pad"})
    => shape = last.arg.S

\* the second pad of a shape that the first pad had changed
C4_Witness ==
  /\ last.op = "pad"
  /\ last.arg.origin = "pad"
  /\ raw # shape
  /\ raw.num_vars < shape.num_vars
  /\ raw.A # <<>>

\* the shape pad was applied to by the last new or pad
PadInput == IF last.op = "new" THEN raw ELSE last.arg.S
PadGrew ==
  /\ (last.op = "new" /\ IsOk(last.res)) \/ last.op = "pad"
  /\ PadInput.num_vars < shape.num_vars

\* C5: column remap.  When pad grows num_vars from n to m, every triple
\* keeps its row and its value, a column below n stays and a column col >= n
\* becomes col + (m - n); so a padded triple reads from
\* z' = [W | 0^(m-n) | c | X] the scalar the triple read from z = [W | c | X],
\* and the products of the padded matrices on z' are, on the original rows,
\* the products of the original matrices on z.
C5_ColumnRemap ==
  PadGrew =>
    LET n == PadInput.num_vars
        m == shape.num_vars
    IN  \A j \in 1 .. 3 :
          LET M == Matrices(PadInput)[j]
              P == Matrices(shape)[j]
          IN  /\ Len(P) = Len(M)
              /\ \A k \in DOMAIN M :
                   /\ P[k][1] = M[k][1]
                   /\ P[k][3] = M[k][3]
                   /\ P[k][2] = IF M[k][2] < n THEN M[k][2] ELSE M[k][2] + (m - n)
              /\ \A z \in [1 .. (n + 1 + PadInput.num_io) -> {1, 2}] :
                   LET zp == SubSeq(z, 1, n) \o Zeros(m - n)
                               \o SubSeq(z, n + 1, Len(z))
                   IN  /\ \A k \in DOMAIN M :
                            M[k][2] < Len(z) => zp[P[k][2] + 1] = z[M[k][2] + 1]
                       /\ (\A k \in DOMAIN M : M[k][2] < Len(z))
                            => \A i \in 0 .. (PadInput.num_cons - 1) :
                                 RowDot(P, i, zp) = RowDot(M, i, z)

\* new grew num_vars of a shape with a column below num_vars, the column
\* num_vars and a column above it
C5_Witness ==
  /\ last.op = "new"
  /\ IsOk(last.res)
  /\ raw.num_vars < shape.num_vars
  /\ \E k \in DOMAIN raw.A : raw.A[k][2] < raw.num_vars
  /\ \E k \in DOMAIN raw.B : raw.B[k][2] = raw.num_vars
  /\ \E k \in DOMAIN raw.C : raw.C[k][2] > raw.num_vars

\* C6: a shape returned as Ok by R1CSShape::new has every row below
\* num_cons, every column at most num_vars + num_io, num_cons = num_vars a
\* power of two, and num_io < num_vars: check_regular_shape does not fail.
C6_ShapeInvariant ==
  (last.op = "new" /\ IsOk(last.res))
    => /\ \A j \in 1 .. 3 : \A k \in DOMAIN Matrices(shape)[j] :
            /\ Matrices(shape)[j][k][1] < shape.num_cons
            /\ Matrices(shape)[j][k][2] <= shape.num_vars + shape.num_io
       /\ shape.num_cons = shape.num_vars
       /\ IsPowerOfTwo(shape.num_vars)
       /\ shape.num_io < shape.num_vars
       /\ check_regular_shape(shape)

\* some triple of the arguments of the last new is out of range
SomeTripleOutOfRange ==
  \E j \in 1 .. 3 : \E k \in DOMAIN Matrices(last.arg)[j] :
    \/ Matrices(last.arg)[j][k][1] >= last.arg.num_cons
    \/ Matrices(last.arg)[j][k][2] > last.arg.num_vars + last.arg.num_io

\* C7: R1CSShape::new returns Err(InvalidIndex) if and only if some triple
\* of A, B or C has row >= num_cons or col > num_vars + num_io, whichever
\* the matrix; otherwise it returns Ok with the padded shape, which holds
\* the triples given, the columns from num_vars on moved by the padding.
C7_NewResult ==
  last.op = "new" =>
    IF SomeTripleOutOfRange
      THEN last.res = Err("InvalidIndex")
      ELSE /\ IsOk(last.res)
           /\ shape = last.res.val
           /\ shape.num_io = last.arg.num_io
           /\ shape.num_cons = shape.num_vars
           /\ IsPowerOfTwo(shape.num_vars)
           /\ shape.num_vars >= max(last.arg.num_cons, last.arg.num_vars)
           /\ shape.num_vars = 1
                \/ shape.num_vars \div 2 < max(last.arg.num_cons, last.arg.num_vars)
           /\ \A j \in 1 .. 3 :
                LET M == Matrices(last.arg)[j]
                    P == Matrices(shape)[j]
                IN  /\ Len(P) = Len(M)
                    /\ \A k \in DOMAIN M :
                         P[k] = <<M[k][1],
                                  IF M[k][2] >= last.arg.num_vars
                                    THEN M[k][2] + shape.num_vars
                                           - last.arg.num_vars
                                    ELSE M[k][2],
                                  M[k][3]>>

\* new refused arguments in which B alone has a triple out of range
C7_Witness ==
  /\ last.op = "new"
  /\ last.res = Err("InvalidIndex")
  /\ last.arg.A = <<>>
  /\ last.arg.C = <<>>
  /\ last.arg.B # <<>>

\* C8: on inputs of the right dimensions is_sat returns Ok(()) exactly when
\* Az[i] * Bz[i] = Cz[i] for every i < num_cons, z = [W | 1 | X], and
\* U.comm_W is the commitment of W.W; in every other case Err(UnSat).
C8_IsSatOutcome ==
  (last.op = "is_sat" /\ origin = "new")
    => LET z == last.arg.W.W \o <<ONE>> \o last.arg.U.X
       IN  IF /\ \A i \in 0 .. (shape.num_cons - 1) :
                   Mul(RowDot(shape.A, i, z), RowDot(shape.B, i, z))
                     = RowDot(shape.C, i, z)
              /\ last.arg.U.comm_W = commit(ck, last.arg.W.W)
             THEN last.res = Ok("unit")
             ELSE last.res = Err("UnSat")

\* is_sat was called on the shape of the scenario, W = [3, 4] and its
\* commitment
ScenarioIsSat ==
  /\ last.op = "is_sat"
  /\ origin = "new"
  /\ raw = ScenarioArgs
  /\ last.arg.W.W = ScenarioW
  /\ last.arg.U.comm_W = commit(ck, ScenarioW)

\* C9: on the shape of new(1, 2, 1, [(0,0,1)], [(0,1,1)], [(0,2,1)]), with
\* W = [3, 4] and its commitment, is_sat returns success for X = [12] and
\* the unsatisfiability error for X = [13].
C9_Scenario ==
  ScenarioIsSat
    => /\ last.arg.U.X = <<12>> => last.res = Ok("unit")
       /\ last.arg.U.X = <<13>> => last.res = Err("UnSat")

\* multiply_vec was called on the shape of the scenario with z = [3,4,0,1,12]
ScenarioMultiplyVec ==
  /\ last.op = "multiply_vec"
  /\ origin = "new"
  /\ raw = ScenarioArgs
  /\ last.arg = ScenarioZ

\* C10, as stated: on the padded shape of the scenario, multiply_vec with
\* z = [3, 4, 0, 1, 12] returns Az = [3, 0], Bz = [4, 0], Cz = [12, 0].
C10_AsStated ==
  ScenarioMultiplyVec
    => last.res = Ok(<< <<3, 0>>, <<4, 0>>, <<12, 0>> >>)

\* C10, amended: the padded shape of the scenario has num_cons = num_vars = 2
\* and num_io = 1, z = [3, 4, 0, 1, 12] has 5 entries and not
\* num_vars + num_io + 1 = 4, and multiply_vec returns
\* Err(InvalidWitnessLength).
C10_WrongLength ==
  ScenarioMultiplyVec
    => /\ shape.num_cons = 2
       /\ shape.num_vars = 2
       /\ shape.num_io = 1
       /\ Len(last.arg) # shape.num_vars + shape.num_io + 1
       /\ last.res = Err("InvalidWitnessLength")

\* the call of the scenario was made, on a pool of one thread
C10_Witness ==
  /\ ScenarioMultiplyVec
  /\ pool = 1
  /\ ~IsOk(last.res)

\* C11: on a witness or an instance whose lengths do not fit the shape
\* (W.W.len() # num_vars, W.E.len() # num_cons, X.len() # num_io, a raw
\* witness longer than num_vars), is_sat, is_sat_relaxed and R1CSWitness::new
\* return a value of the error enumeration and do not abort.
C11_NoAbort ==
  /\ (last.op = "witness_new" /\ Len(last.arg) > shape.num_vars)
       => last.res.kind = "Err"
  /\ (last.op = "is_sat"
        /\ (Len(last.arg.W.W) # shape.num_vars
              \/ Len(last.arg.U.X) # shape.num_io))
       => last.res.kind = "Err"
  /\ (last.op = "is_sat_relaxed"
        /\ (Len(last.arg.W.W) # shape.num_vars
              \/ Len(last.arg.W.E) # shape.num_cons
              \/ Len(last.arg.U.X) # shape.num_io))
       => last.res.kind = "Err"

\* C17: W.fold(W2, T, r) returns Err(InvalidWitnessLength) if and only if
\* W.W.len() # W2.W.len(); otherwise, for every T and r, a witness with
\* W_new.W[i] = W.W[i] + r * W2.W[i] for every i < len(W.W) and
\* W_new.E[i] = W.E[i] + r * T[i] for every i < len(W.E), W_new.E as long as
\* W.E; W, W2 and T are left unchanged.
C17_WitnessFold ==
  last.op = "witness_fold" =>
    LET a == last.arg
    IN  /\ accW = a.W1
        /\ W2 = a.W2
        /\ IF Len(a.W1.W) # Len(a.W2.W)
             THEN last.res = Err("InvalidWitnessLength")
             ELSE /\ IsOk(last.res)
                  /\ Len(last.res.val.W) = Len(a.W1.W)
                  /\ \A i \in 1 .. Len(a.W1.W) :
                       last.res.val.W[i]
                         = Add(a.W1.W[i], Mul(a.r, a.W2.W[i]))
                  /\ Len(last.res.val.E) = Len(a.W1.E)
                  /\ \A i \in 1 .. Len(a.W1.E) :
                       last.res.val.E[i] = Add(a.W1.E[i], Mul(a.r, a.T[i]))

\* C12: when is_sat_relaxed accepted a folded pair (U, W), it returns
\* Err(UnSat) on the pair with one entry of W.W replaced by another scalar
\* and U, W.E and the other entries of W.W as they were.
C12_TamperedRejected ==
  last.op = "tamper"
    => /\ last.arg.U = accU
       /\ last.arg.W.E = accW.E
       /\ \A j \in DOMAIN accW.W : (last.arg.W.W[j] # accW.W[j]) <=> (j = last.arg.i)
       /\ last.res = Err("UnSat")

\* after two folds, an entry of W.W that no constraint reads was replaced
C12_Witness ==
  /\ last.op = "tamper"
  /\ folds = 2
  /\ last.arg.i > 1
  /\ last.res = Err("UnSat")

(***************************************************************************)
(* provider/pasta.rs: the derivation of the generators from a label.       *)
(***************************************************************************)
\* the largest rayon pool of the generator derivation
MaxThreads == 5
\* the largest number of generators derived
MaxN == 12

min(a, b) == IF a < b THEN a ELSE b

\* Shake256 reader: the k-th block of 32 bytes read from the stream of a label
uniform_bytes(label, k) == <<label, k>>

\* hash_to_curve: a point in projective coordinates, whose Z is not one
hash_to_curve(bytes) == [pt |-> bytes, Z |-> 2 + (bytes[2] % 3)]

\* to_affine: the affine point of a projective one
to_affine(p) == [pt |-> p.pt]

\* batch_normalize: the affine points of a slice, in its order
batch_normalize(ps) == [k \in 1 .. Len(ps) |-> to_affine(ps[k])]

\* &ck_proj[start..end], which panics when the range leaves the vector
slice(v, start, end) ==
  IF start > end \/ end > Len(v)
    THEN Panic
    ELSE Ok([k \in 1 .. (end - start) |-> v[start + k]])

\* faulty variant: the end of a worker's range is not clamped to the length
range_end_unclamped(i, chunk, len, num_threads) == (i + 1) * chunk

\* the end of worker i's range
range_end(i, chunk, len, num_threads) ==
  IF i = num_threads - 1 THEN len ELSE min((i + 1) * chunk, len)

\* the closure of flat_map: the affine points of worker i's range
normalize_range(ck_proj, i, chunk, num_threads) ==
  LET start == i * chunk
      end == range_end(i, chunk, Len(ck_proj), num_threads)
  IN  IF end > start
        THEN LET part == slice(ck_proj, start, end)
             IN  IF IsPanic(part) THEN Panic ELSE Ok(batch_normalize(part.val))
        ELSE Ok(<<>>)

\* flat_map(..).collect(): the workers' vectors concatenated in index order;
\* a panic of a worker is the panic of the call, a return is Ok of the vector
RECURSIVE flat_map(_, _, _, _)
flat_map(ck_proj, i, chunk, num_threads) ==
  IF i = num_threads
    THEN Ok(<<>>)
    ELSE LET head == normalize_range(ck_proj, i, chunk, num_threads)
             rest == flat_map(ck_proj, i + 1, chunk, num_threads)
         IN  IF IsPanic(head) \/ IsPanic(rest)
               THEN Panic
               ELSE Ok(head.val \o rest.val)

\* Group::from_label, with num_threads = rayon::current_num_threads()
from_label(label, n, num_threads) ==
  LET ck_proj == [k \in 1 .. n |-> hash_to_curve(uniform_bytes(label, k - 1))]
  IN  IF Len(ck_proj) > num_threads
        THEN flat_map(ck_proj, 0, CeilDiv(Len(ck_proj), num_threads), num_threads)
        ELSE Ok(batch_normalize(ck_proj))

\* tests::from_label_serial
from_label_serial(label, n) ==
  [k \in 1 .. n |-> to_affine(hash_to_curve(uniform_bytes(label, k - 1)))]

Labels == {"ck", "test_from_label"}

InitLabel ==
  /\ pool \in 1 .. MaxThreads
  /\ raw = None
  /\ shape = None
  /\ origin = "none"
  /\ W2 = None
  /\ U2 = None
  /\ accW = None
  /\ accU = None
  /\ hist = None
  /\ folds = 0
  /\ last = Call("init", None, None)
  /\ poly = None
  /\ kern = None

\* tests::test_from_label, one n of its loop
FromLabel(label, n) ==
  /\ last' = Call("from_label", [label |-> label, n |-> n, num_threads |-> pool],
                  [ck_par |-> from_label(label, n, pool),
                   ck_ser |-> from_label_serial(label, n)])
  /\ UNCHANGED <<pool, raw, shape, origin, W2, U2, accW, accU, hist, folds>>
  /\ UNCHANGED <<poly, kern>>

NextLabel == \E label \in Labels, n \in 0 .. MaxN : FromLabel(label, n)

SpecLabel == InitLabel /\ [][NextLabel]_vars

\* C13: for every label, every n and every worker count, the parallel
\* from_label returns exactly n elements, equal element by element and in
\* the same order to the serial derivation.
C13_FromLabelIsSerial ==
  last.op = "from_label"
    => /\ IsOk(last.res.ck_par)
       /\ Len(last.res.ck_par.val) = last.arg.n
       /\ Len(last.res.ck_ser) = last.arg.n
       /\ \A k \in 1 .. last.arg.n : last.res.ck_par.val[k] = last.res.ck_ser[k]

\* more elements than workers, and the last worker's range is empty
C13_Witness ==
  /\ last.op = "from_label"
  /\ last.arg.n > last.arg.num_threads
  /\ (last.arg.num_threads - 1) * CeilDiv(last.arg.n, last.arg.num_threads) > last.arg.n
  /\ last.res.ck_par = Ok(last.res.ck_ser)
  /\ Len(last.res.ck_ser) = last.arg.n

(***************************************************************************)
(* spartan/polynomial.rs: EqPolynomial, MultilinearPolynomial and          *)
(* SparsePolynomial over the scalar field.                                 *)
(***************************************************************************)
\* the largest number of variables of a polynomial
MaxVars == 4

RECURSIVE log2(_)
\* (len as f64).log2() as usize
log2(n) == IF n <= 1 THEN 0 ELSE 1 + log2(n \div 2)

\* faulty variant: the challenges are taken first to last
iter_forward(r) == r

\* self.r.iter().rev()
iter_rev(r) == [k \in 1 .. Len(r) |-> r[Len(r) + 1 - k]]

\* one round of the loop of evals: *y = *x * r; *x -= *y on the first size
\* entries (x) and the size entries after them (y)
evals_round(evals, size, r) ==
  [j \in 1 .. Len(evals) |->
     IF j <= size THEN Sub(evals[j], Mul(evals[j], r))
     ELSE IF j <= 2 * size THEN Mul(evals[j - size], r)
     ELSE evals[j]]

RECURSIVE evals_loop(_, _, _, _)
evals_loop(evals, size, rs, k) ==
  IF k > Len(rs)
    THEN evals
    ELSE Bind(evals_round(evals, size, rs[k]),
              LAMBDA next : evals_loop(next, 2 * size, rs, k + 1))

\* EqPolynomial::evals
EqPolynomial_evals(r) ==
  LET ell == Len(r)
  IN  Bind(<<[j \in 1 .. (2 ^ ell) |-> IF j = 1 THEN ONE ELSE ZERO], iter_rev(r)>>,
           LAMBDA v : evals_loop(v[1], 1, v[2], 1))

RECURSIVE eq_fold(_, _, _, _)
\* .fold(Scalar::ONE, |acc, item| acc * item) over the items of evaluate
eq_fold(r, rx, i, acc) ==
  IF i > Len(rx)
    THEN acc
    ELSE eq_fold(r, rx, i + 1,
                 Mul(acc, Add(Mul(rx[i], r[i]), Mul(Sub(ONE, rx[i]), Sub(ONE, r[i])))))

\* EqPolynomial::evaluate
EqPolynomial_evaluate(r, rx) ==
  IF Len(r) # Len(rx) THEN Panic ELSE Ok(eq_fold(r, rx, 1, ONE))

\* MultilinearPolynomial::new
MultilinearPolynomial_new(Z) ==
  IF Len(Z) # 2 ^ log2(Len(Z))
    THEN Panic
    ELSE Ok([num_vars |-> log2(Len(Z)), Z |-> Z])

\* faulty variant: the lowest variable is bound (neighbouring entries paired)
bound_poly_var_bottom(p, r) ==
  LET n == Len(p.Z) \div 2
  IN  [num_vars |-> p.num_vars - 1,
       Z |-> [i \in 1 .. n |->
                Add(p.Z[2 * i - 1], Mul(r, Sub(p.Z[2 * i], p.Z[2 * i - 1])))]]

\* MultilinearPolynomial::bound_poly_var_top
bound_poly_var_top(p, r) ==
  LET n == Len(p.Z) \div 2
  IN  [num_vars |-> p.num_vars - 1,
       Z |-> [i \in 1 .. n |-> Add(p.Z[i], Mul(r, Sub(p.Z[n + i], p.Z[i])))]]

RECURSIVE dot_reduce(_, _, _)
\* .map(|i| chis[i] * Z[i]).reduce(|| ZERO, |x, y| x + y)
dot_reduce(chis, Z, i) ==
  IF i > Len(chis) THEN ZERO ELSE Add(Mul(chis[i], Z[i]), dot_reduce(chis, Z, i + 1))

\* MultilinearPolynomial::evaluate
MultilinearPolynomial_evaluate(p, r) ==
  IF Len(r) # p.num_vars
    THEN Panic
    ELSE Bind(EqPolynomial_evals(r),
              LAMBDA chis : IF Len(chis) # Len(p.Z)
                              THEN Panic
                              ELSE Ok(dot_reduce(chis, p.Z, 1)))

\* SparsePolynomial::new
SparsePolynomial_new(num_vars, Z) == [num_vars |-> num_vars, Z |-> Z]

RECURSIVE chi_loop(_, _, _, _)
chi_loop(a, r, j, chi_i) ==
  IF j > Len(r)
    THEN chi_i
    ELSE chi_loop(a, r, j + 1,
                  IF a[j] THEN Mul(chi_i, r[j]) ELSE Mul(chi_i, Sub(ONE, r[j])))

\* SparsePolynomial::compute_chi
compute_chi(a, r) ==
  IF Len(a) # Len(r) THEN Panic ELSE Ok(chi_loop(a, r, 1, ONE))

\* faulty variant: the bits of num from the least significant one
get_bits_lsb_first(num, num_bits) ==
  [k \in 1 .. num_bits |-> (num \div (2 ^ (k - 1))) % 2 = 1]

\* get_bits: (num & (1 << (num_bits - shift_amount - 1))) > 0 for
\* shift_amount = 0 .. num_bits - 1
get_bits(num, num_bits) ==
  [k \in 1 .. num_bits |-> (num \div (2 ^ (num_bits - (k - 1) - 1))) % 2 = 1]

RECURSIVE sparse_reduce(_, _, _)
sparse_reduce(Z, r, i) ==
  IF i > Len(Z)
    THEN Ok(ZERO)
    ELSE Bind(<<Bind(get_bits(Z[i][1], Len(r)), LAMBDA bits : compute_chi(bits, r)),
                sparse_reduce(Z, r, i + 1)>>,
              LAMBDA v : IF IsPanic(v[1]) \/ IsPanic(v[2])
                           THEN Panic
                           ELSE Ok(Add(Mul(v[1].val, Z[i][2]), v[2].val)))

\* SparsePolynomial::evaluate
SparsePolynomial_evaluate(p, r) ==
  IF p.num_vars # Len(r) THEN Panic ELSE sparse_reduce(p.Z, r, 1)

\* the values of challenges and evaluation points
PolyScalars == {ONE, 2, Q - 1}

\* the points of 0 .. MaxVars coordinates
PolyPoints == SeqsUpTo(PolyScalars, MaxVars)

\* dense tables of 2^k entries, many of them with zero entries
PolyTables(k) ==
  {[i \in 1 .. (2 ^ k) |-> (a * i * i + b * i + c) % 5] : a, b, c \in 0 .. 2}

RECURSIVE nonzero_from(_, _)
\* the entries (i, Z[i]) with Z[i] != 0, in the order of i (counted from 0)
nonzero_from(Z, i) ==
  IF i > Len(Z) THEN <<>>
  ELSE IF Z[i] = ZERO THEN nonzero_from(Z, i + 1)
  ELSE <<(<<i - 1, Z[i]>>)>> \o nonzero_from(Z, i + 1)

\* the boolean vector of the ell-bit representation of i, the most
\* significant bit first
boolean_vector(i, ell) ==
  [k \in 1 .. ell |-> IF (i \div (2 ^ (ell - k))) % 2 = 1 THEN ONE ELSE ZERO]

\* EqPolynomial::new(r), its evals() and its evaluate at every boolean vector
EqEvals ==
  /\ poly = None
  /\ last.op = "init"
  /\ \E r \in PolyPoints :
       last' = Call("evals", [r |-> r],
                    [evals |-> EqPolynomial_evals(r),
                     evaluate |-> [i \in 0 .. (2 ^ Len(r) - 1) |->
                                     EqPolynomial_evaluate(r, boolean_vector(i, Len(r)))]])
  /\ UNCHANGED <<pool, raw, shape, origin, W2, U2, accW, accU, hist, folds>>
  /\ UNCHANGED <<poly, kern>>

\* the evaluation of a dense table and of the SparsePolynomial of its
\* nonzero entries at a point
SparseEvaluate ==
  /\ poly = None
  /\ last.op = "init"
  /\ \E k \in 0 .. MaxVars :
       \E Z \in PolyTables(k) :
         \E dense \in {MultilinearPolynomial_new(Z)},
            sparse \in {SparsePolynomial_new(k, nonzero_from(Z, 1))} :
           /\ IsOk(dense)
           /\ \E r \in [1 .. k -> PolyScalars] :
                last' = Call("sparse_evaluate", [Z |-> Z, r |-> r, sparse |-> sparse],
                             [sparse |-> SparsePolynomial_evaluate(sparse, r),
                              dense |-> MultilinearPolynomial_evaluate(dense.val, r)])
  /\ UNCHANGED <<pool, raw, shape, origin, W2, U2, accW, accU, hist, folds>>
  /\ UNCHANGED <<poly, kern>>

\* MultilinearPolynomial::new; orig and rs are the caller's record of the
\* table given and of the challenges bound so far
PolyNew ==
  /\ poly = None
  /\ last.op = "init"
  /\ \E k \in 0 .. MaxVars :
       \E Z \in PolyTables(k) :
         \E p \in {MultilinearPolynomial_new(Z)} :
           /\ IsOk(p)
           /\ poly' = [num_vars |-> p.val.num_vars, Z |-> p.val.Z,
                       orig |-> Z, rs |-> <<>>]
           /\ last' = Call("new", [Z |-> Z], None)
  /\ UNCHANGED <<pool, raw, shape, origin, W2, U2, accW, accU, hist, folds, kern>>

\* MultilinearPolynomial::bound_poly_var_top, each variable bound once
BoundPolyVarTop(r) ==
  /\ poly # None
  /\ poly.num_vars > 0
  /\ \E p \in {bound_poly_var_top([num_vars |-> poly.num_vars, Z |-> poly.Z], r)} :
       poly' = [num_vars |-> p.num_vars, Z |-> p.Z,
                orig |-> poly.orig, rs |-> Append(poly.rs, r)]
  /\ last' = Call("bound_poly_var_top", [r |-> r], None)
  /\ UNCHANGED <<pool, raw, shape, origin, W2, U2, accW, accU, hist, folds, kern>>

NextPoly ==
  \/ EqEvals
  \/ SparseEvaluate
  \/ PolyNew
  \/ \E r \in PolyScalars : BoundPolyVarTop(r)

SpecPoly == Init /\ [][NextPoly]_vars

\* C14: for every r of length l, evals() has 2^l entries and its entry i
\* is evaluate at the boolean vector of the l-bit representation of i, the
\* most significant bit at x[0].
C14_EvalsIsEvaluate ==
  last.op = "evals"
    => /\ Len(last.res.evals) = 2 ^ Len(last.arg.r)
       /\ \A i \in 0 .. (2 ^ Len(last.arg.r) - 1) :
            last.res.evaluate[i] = Ok(last.res.evals[i + 1])

\* four challenges, the first and the last of them different and neither a
\* bit, and a nonzero last entry of evals
C14_Witness ==
  /\ last.op = "evals"
  /\ Len(last.arg.r) = 4
  /\ last.arg.r[1] = 2
  /\ last.arg.r[4] = Q - 1
  /\ last.res.evals[16] # ZERO
  /\ last.res.evaluate[15] = Ok(last.res.evals[16])

\* C15: after every bound_poly_var_top the table is halved and num_vars is
\* one less, so that len(Z) = 2^num_vars, and after k calls with r_1 .. r_k
\* the single entry left is evaluate([r_1 .. r_k]) of the original table.
C15_BindingIsEvaluate ==
  poly # None
    => /\ Len(poly.Z) = 2 ^ poly.num_vars
       /\ Len(poly.Z) * (2 ^ Len(poly.rs)) = Len(poly.orig)
       /\ poly.num_vars + Len(poly.rs) = log2(Len(poly.orig))
       /\ (Len(poly.rs) = log2(Len(poly.orig)))
            => /\ Len(poly.Z) = 1
               /\ MultilinearPolynomial_evaluate(
                    [num_vars |-> Len(poly.rs), Z |-> poly.orig], poly.rs)
                    = Ok(poly.Z[1])

\* three variables bound with different challenges, to a nonzero value
C15_Witness ==
  /\ poly # None
  /\ Len(poly.orig) = 8
  /\ poly.rs = <<2, Q - 1, ONE>>
  /\ Len(poly.Z) = 1
  /\ poly.num_vars = 0
  /\ poly.Z[1] # ZERO
  /\ \E i \in 1 .. 8 : poly.orig[i] # poly.Z[1]

\* C16: the SparsePolynomial of the nonzero entries of a dense table
\* evaluates at every point to the value of the MultilinearPolynomial of
\* the table.
C16_SparseIsDense ==
  last.op = "sparse_evaluate"
    => /\ IsOk(last.res.sparse)
       /\ last.res.sparse = last.res.dense

\* a table of 8 entries, some of them zero and left out, at a point that is
\* not a boolean vector, with a nonzero value
C16_Witness ==
  /\ last.op = "sparse_evaluate"
  /\ Len(last.arg.Z) = 8
  /\ Len(last.arg.sparse.Z) \in 2 .. 6
  /\ last.arg.r = <<2, Q - 1, 2>>
  /\ last.res.sparse = last.res.dense
  /\ IsOk(last.res.sparse) /\ last.res.sparse.val # ZERO

(***************************************************************************)
(* r1cs.rs 149-229: the workers of sparse_matrix_vec_product, one per       *)
(* sub-matrix, interleaved step by step.  At most pool of them run at a    *)
(* time (the threads of the rayon pool), in any order.                     *)
(***************************************************************************)
get_chunk(row_index, row_chunk_size) == row_index \div row_chunk_size
get_index(row_index, row_chunk_size) == row_index % row_chunk_size

\* faulty variant: the guard is kept while the next mutex is waited for
keep_guard(held, c) == held

\* drop(curr_chunk): the worker's guards without the one of bucket c
drop_guard(held, c) == held \ {c}

\* 16 entries over 8 rows and 3 columns, (row, column) ordered
KernelRows == <<0, 0, 0, 1, 1, 2, 3, 3, 3, 4, 5, 5, 6, 6, 7, 7>>
KernelCols == <<0, 1, 2, 0, 1, 2, 0, 1, 2, 0, 1, 2, 0, 1, 0, 1>>
KernelOrdered ==
  [e \in 1 .. Len(KernelRows) |-> <<KernelRows[e], KernelCols[e], 1 + (e % 2)>>]
\* the same entries last to first: not (row, column) ordered
KernelReversed ==
  [e \in 1 .. Len(KernelOrdered) |-> KernelOrdered[Len(KernelOrdered) + 1 - e]]

KernelInputs ==
  {[M |-> M, num_rows |-> 8, z |-> <<2, ZERO, ONE>>] : M \in {KernelOrdered, KernelReversed}}

\* lines 157-176: the buckets are allocated and the sub-matrices cut; no
\* worker has started
KernelStart(a) ==
  /\ kern = None
  /\ LET num_threads == pool * 4
         thread_chunk_size == Len(a.M) \div num_threads
         row_chunk_size == CeilDiv(a.num_rows, num_threads)
     IN  \E chunks \in {alloc_chunks(a.num_rows, num_threads, row_chunk_size)} :
           IF ~IsOk(chunks) \/ thread_chunk_size = 0
             THEN kern' = [status |-> "panic", arg |-> a, row_chunk_size |-> row_chunk_size,
                           subs |-> <<>>, chunks |-> <<>>, w |-> <<>>]
             ELSE \E subs \in {par_chunks(a.M, thread_chunk_size)} :
                    kern' = [status |-> "running", arg |-> a,
                             row_chunk_size |-> row_chunk_size,
                             subs |-> subs, chunks |-> chunks.val,
                             w |-> [j \in 1 .. Len(subs) |->
                                      [pc |-> "idle", k |-> 1, cur |-> 0, held |-> {}]]]
  /\ last' = Call("kernel", a, None)
  /\ UNCHANGED <<pool, raw, shape, origin, W2, U2, accW, accU, hist, folds, poly>>

Workers == IF kern = None THEN {} ELSE DOMAIN kern.w
Running == {j \in Workers : kern.w[j].pc \notin {"idle", "done"}}
\* the entry worker j is at, and the bucket of its row
Entry(j) == kern.subs[j][kern.w[j].k]
EntryChunk(j) == get_chunk(Entry(j)[1], kern.row_chunk_size)
\* the workers whose guard locks bucket c
Holders(c) == {i \in Workers : c \in kern.w[i].held}

KernelStep(j, wj, chunks) ==
  /\ kern' = [kern EXCEPT !.w[j] = wj, !.chunks = chunks]
  /\ UNCHANGED <<pool, raw, shape, origin, W2, U2, accW, accU, hist, folds, last, poly>>

\* lines 179-181: a thread of the pool takes sub-matrix j
Begin(j) ==
  /\ kern # None /\ kern.status = "running"
  /\ j \in Workers /\ kern.w[j].pc = "idle"
  /\ Cardinality(Running) < pool
  /\ KernelStep(j, [kern.w[j] EXCEPT !.pc = "lock", !.cur = EntryChunk(j)], kern.chunks)

\* lines 182 and 193: chunks[..].lock() returns once the mutex is free
Acquire(j) ==
  /\ kern # None /\ j \in Workers /\ kern.w[j].pc = "lock"
  /\ Holders(kern.w[j].cur) = {}
  /\ KernelStep(j, [kern.w[j] EXCEPT !.pc = "update", !.held = @ \cup {kern.w[j].cur}],
                kern.chunks)

\* lines 184 and 199-210: the entry is added through the guard held, and
\* the next entry, if there is one, is looked at (lines 190-191)
Update(j) ==
  /\ kern # None /\ j \in Workers /\ kern.w[j].pc = "update"
  /\ LET e == Entry(j)
         wj == kern.w[j]
         zc == kern.arg.z[e[2] + 1]
         chunks == IF wj.k = 1
                     THEN add_to_chunk(kern.chunks, wj.cur,
                                       get_index(e[1], kern.row_chunk_size), Mul(e[3], zc))
                   ELSE IF zc = ZERO
                     THEN kern.chunks
                   ELSE add_to_chunk(kern.chunks, wj.cur,
                                     get_index(e[1], kern.row_chunk_size), scaled(e[3], zc))
         pc == IF wj.k = Len(kern.subs[j]) THEN "exit"
               ELSE IF get_chunk(kern.subs[j][wj.k + 1][1], kern.row_chunk_size) # wj.cur
                 THEN "drop"
               ELSE "update"
     IN  KernelStep(j, [wj EXCEPT !.pc = pc, !.k = @ + 1], chunks)

\* line 192: drop(curr_chunk), before the next mutex is waited for
Drop(j) ==
  /\ kern # None /\ j \in Workers /\ kern.w[j].pc = "drop"
  /\ KernelStep(j, [kern.w[j] EXCEPT !.pc = "lock",
                                     !.held = drop_guard(@, kern.w[j].cur),
                                     !.cur = EntryChunk(j)],
                kern.chunks)

\* line 212: the closure ends and its guard goes out of scope
Exit(j) ==
  /\ kern # None /\ j \in Workers /\ kern.w[j].pc = "exit"
  /\ KernelStep(j, [kern.w[j] EXCEPT !.pc = "done", !.held = @ \ {kern.w[j].cur}],
                kern.chunks)

\* lines 213-223: for_each has returned, the buckets are flattened
KernelReturn ==
  /\ kern # None /\ kern.status = "running"
  /\ \A j \in Workers : kern.w[j].pc = "done"
  /\ kern' = [kern EXCEPT !.status = "returned"]
  /\ last' = Call("sparse_matrix_vec_product", kern.arg, Ok(flatten(kern.chunks, 1)))
  /\ UNCHANGED <<pool, raw, shape, origin, W2, U2, accW, accU, hist, folds, poly>>

NextKernel ==
  \/ \E a \in KernelInputs : KernelStart(a)
  \/ \E j \in Workers : Begin(j)
  \/ \E j \in Workers : Acquire(j)
  \/ \E j \in Workers : Update(j)
  \/ \E j \in Workers : Drop(j)
  \/ \E j \in Workers : Exit(j)
  \/ KernelReturn

\* a thread that can take a step takes one
SpecKernel == Init /\ [][NextKernel]_vars /\ WF_vars(NextKernel)

\* no worker holds two guards; one waiting for a mutex holds none; one
\* updating, dropping or leaving holds the guard of its bucket, which is the
\* bucket of the entry it adds; a guard is dropped only before an entry of
\* another bucket; no mutex is locked by two workers
HandOff ==
  \A j \in Workers :
    /\ Cardinality(kern.w[j].held) <= 1
    /\ kern.w[j].pc \in {"idle", "lock", "done"} => kern.w[j].held = {}
    /\ kern.w[j].pc \in {"update", "drop", "exit"} => kern.w[j].held = {kern.w[j].cur}
    /\ kern.w[j].pc = "update" => EntryChunk(j) = kern.w[j].cur
    /\ kern.w[j].pc = "drop" => EntryChunk(j) # kern.w[j].cur
    /\ \A c \in kern.w[j].held : Holders(c) = {j}

\* the call is over: every worker has finished and every mutex is free
Finished ==
  /\ kern # None
  /\ kern.status \in {"returned", "panic"}
  /\ \A j \in Workers : kern.w[j].pc = "done" /\ kern.w[j].held = {}

\* C18: in every interleaving each worker holds at most one bucket mutex,
\* releasing its bucket before it waits for the next and only when the
\* bucket changes; every update is made under the mutex of the bucket
\* updated; and every worker eventually finishes, with all mutexes free.
C18_LockHandOff == [](HandOff) /\ <>[](Finished)

\* a worker that has left one bucket waits for the next one, which another
\* worker holds
C18_Witness ==
  \E i, j \in Workers :
    /\ i # j
    /\ kern.w[j].pc = "lock" /\ kern.w[j].k > 1
    /\ kern.w[j].cur \in kern.w[i].held

====
